---- MODULE Spec2Model ----
(***************************************************************************)
(* Client-side image compression of the receipt uploader.                  *)
(*                                                                         *)
(* Two implementations of compressImage are modelled:                      *)
(*   impl = "lib"     src/lib/imageCompression.ts (fixed quality step,     *)
(*                    recursive dimension reduction in compressToSize)     *)
(*   impl = "unnamed" src/unnamed/part_001 (multiplicative quality decay,  *)
(*                    at most ten encode attempts)                         *)
(*                                                                         *)
(* One behaviour is one compressImage call on an input file, optionally    *)
(* followed by a second call on the file the first call resolved with.     *)
(* The browser is the environment: it decides whether the image loads,     *)
(* whether a 2d context is available and what canvas.toBlob produces.      *)
(*                                                                         *)
(* Further specifications over the same variables:                         *)
(*   ConcurrentSpec  two compressImage calls in flight at once             *)
(*   DimensionsSpec  the two dimension calculators on their own            *)
(*   ServerSpec      the server action uploadFile (src/actions/            *)
(*                   uploadPDF.ts) and the Convex queries on "receipts"    *)
(*                   (src/unnamed/part_002)                                *)
(*   DropSpec        ReceiptDropzone.handleUpload (src/components/         *)
(*                   schematic/SchematicEmbed.tsx)                         *)
(***************************************************************************)
EXTENDS Integers, Sequences, FiniteSets, TLC

(***************************************************************************)
(* Bounds of the model.                                                    *)
(***************************************************************************)
MaxImageWidth == 8
MaxImageHeight == 3
MaxBytes == 5
MaxRounds == 6
MaxEncodes == 12
MaxReceipts == 2
MaxFiles == 3

(***************************************************************************)
(* IEEE-754 doubles around the multiples of 0.05.                          *)
(*                                                                         *)
(* The quality of the "lib" implementation is a double that is repeatedly  *)
(* decremented by the double 0.1, so rounding error decides how many       *)
(* attempts the loop makes.  A double is the record [k, e] standing for    *)
(* the real  k * H + e * u, where H is the double 0.05 and u = 2^-56 (one  *)
(* ulp of the double 0.1 = 2 * H).  H = 3602879701896397 * u, so           *)
(* H mod 32 = 13, 10 * H = 2^55 + 2 (u) and 20 * H = 2^56 + 4 (u).         *)
(***************************************************************************)
HalfTenthMod32 == 13

Dbl(k, e) == [k |-> k, e |-> e]

\* The double a decimal literal n/20 (n in 1..20) parses to.
LiteralOffset ==
    <<0, 0, -1, 0, -1, -2, -3, 0, -1, -2, 1, -4, -1, -6, -3, 0, -5, -2, -7, -4>>

DblOfTwentieths(n) == Dbl(n, LiteralOffset[n])

\* Spacing, in u, of the doubles in the binade that holds k*H + e.
DblUlp(k, e) ==
    IF k > 20 \/ (k = 20 /\ e >= -4) THEN 16
    ELSE IF k > 10 \/ (k = 10 /\ e >= -2) THEN 8
    ELSE IF k > 5 \/ (k = 5 /\ e >= -1) THEN 4
    ELSE IF k >= 3 THEN 2
    ELSE 1

\* Round the real k*H + e to the nearest double, ties to the even mantissa.
DblRound(k, e) ==
    LET ulp == DblUlp(k, e)
        rem == (k * HalfTenthMod32 + e) % ulp
        odd == ((k * HalfTenthMod32 + e - rem) % (2 * ulp)) # 0
    IN  IF k <= 1 \/ rem = 0 THEN Dbl(k, e)
        ELSE IF 2 * rem < ulp \/ (2 * rem = ulp /\ ~odd) THEN Dbl(k, e - rem)
        ELSE Dbl(k, e + (ulp - rem))

\* a - b in double arithmetic.
DblSub(a, b) == DblRound(a.k - b.k, a.e - b.e)

\* Mutant: the loop of compressToSize tests quality > minQuality.
DblGt(a, b) == a.k > b.k \/ (a.k = b.k /\ a.e > b.e)

\* a >= b for doubles whose offsets are far smaller than H.
DblGe(a, b) == a.k > b.k \/ (a.k = b.k /\ a.e >= b.e)

\* Math.ceil(d / 0.1) for a double d = [k, e].  The real quotient is
\* k/2 + e * (5/8) * 2^-52; the division rounds it to the nearest double, so
\* a positive offset survives only when it exceeds half the spacing of the
\* doubles above the integer k/2 (4, 8, 16, 32 eighths of 2^-52).
CeilDivTenth(d) ==
    LET n == d.k \div 2
        halfUp == IF n >= 8 THEN 32 ELSE IF n >= 4 THEN 16
                  ELSE IF n >= 2 THEN 8 ELSE 4
    IN  IF d.k <= 0 THEN (IF d.k = 0 /\ d.e > 0 THEN 1 ELSE 0)
        ELSE IF d.k % 2 = 1 THEN n + 1
        ELSE IF d.e > 0 /\ 5 * d.e > halfUp THEN n + 1
        ELSE n

(***************************************************************************)
(* Progress percentages are exact rationals <<n, d>>; d = 0 is Infinity.   *)
(***************************************************************************)
Pct(n) == <<n, 1>>

PctLe(a, b) ==
    IF b[2] = 0 THEN TRUE
    ELSE IF a[2] = 0 THEN FALSE
    ELSE a[1] * b[2] <= b[1] * a[2]

Monotone(s) == \A i \in 1..(Len(s) - 1) : PctLe(s[i], s[i + 1])

(***************************************************************************)
(* Constants of the two implementations.                                   *)
(***************************************************************************)
\* "lib": minQuality and qualityStep are both the double 0.1, the quality a
\* dimension-reduction round restarts from is the double 0.8.
minQuality == DblOfTwentieths(2)
qualityStep == DblOfTwentieths(2)
RestartQuality == DblOfTwentieths(16)

\* "unnamed": qualities are exact fixed-point numbers, QScale = 10 * 5^10
\* units per 1.0, so that ten multiplications by 0.8 stay integral.
QScale == 97656250
maxAttemptsUnnamed == 10
\* new File([null]) holds the four characters "null".
NullFileSize == 4

NullBlob == 0

(***************************************************************************)
(* Pure functions.                                                         *)
(***************************************************************************)
Min(a, b) == IF a < b THEN a ELSE b

\* Math.round(a / b) for a >= 0, b > 0.
RoundDiv(a, b) == (2 * a + b) \div (2 * b)

\* Math.round(x * 0.8)
Round80(x) == (8 * x + 5) \div 10

\* src/lib/imageCompression.ts
calculateDimensions(originalWidth, originalHeight, maxWidth, maxHeight) ==
    IF originalWidth > maxWidth \/ originalHeight > maxHeight
    THEN IF originalWidth > originalHeight
         THEN LET width == Min(originalWidth, maxWidth)
              IN  [width |-> width,
                   height |-> RoundDiv(width * originalHeight, originalWidth)]
         ELSE LET height == Min(originalHeight, maxHeight)
              IN  [width |-> RoundDiv(height * originalWidth, originalHeight),
                   height |-> height]
    ELSE [width |-> originalWidth, height |-> originalHeight]

\* src/unnamed/part_001
calculateOptimalDimensions(originalWidth, originalHeight, maxWidth, maxHeight) ==
    LET first == originalWidth > maxWidth
        \* height after the first step exceeds maxHeight
        second == IF first
                  THEN maxWidth * originalHeight > maxHeight * originalWidth
                  ELSE originalHeight > maxHeight
    IN  IF second
        THEN [width |-> RoundDiv(maxHeight * originalWidth, originalHeight),
              height |-> maxHeight]
        ELSE IF first
        THEN [width |-> maxWidth,
              height |-> RoundDiv(maxWidth * originalHeight, originalWidth)]
        ELSE [width |-> originalWidth, height |-> originalHeight]

\* Math.ceil((options.quality - minQuality) / qualityStep)
MaxAttemptsOf(q) == CeilDivTenth(DblSub(q, minQuality))

\* 80 + (attempt / maxAttempts) * 15
ProgressLib(att, ma) == <<80 * ma + 15 * att, ma>>

\* 50 + (attempts / maxAttempts) * 40
ProgressUnnamed(att) == <<50 * maxAttemptsUnnamed + 40 * att, maxAttemptsUnnamed>>

\* Mutant: the decayed quality is not clamped at opts.minQuality.
NextQualityUnclamped(q, minQ) == (q * 4) \div 5

\* Math.max(quality * 0.8, opts.minQuality)
NextQualityUnnamed(q, minQ) ==
    LET r == (q * 4) \div 5 IN IF r > minQ THEN r ELSE minQ


(***************************************************************************)
(* State.                                                                  *)
(***************************************************************************)
VARIABLES
    impl,         \* which implementation runs: "lib" or "unnamed"
    opts,         \* the CompressionOptions of the call
    file,         \* the File the current call was given
    callNo,       \* 1: the call on the input, 2: the call on the first result
    pc,           \* "idle", "loading", "encoding", "resolved", "rejected"
    ctx,          \* canvas.getContext('2d') returned a context
    canvas,       \* the working canvas [width, height]
    quality,      \* the local variable quality
    attempt,      \* attempt ("lib") / attempts ("unnamed")
    maxAttempts,  \* maxAttempts of the running compressToSize round
    result,       \* the File resolved with, or [error |-> message]
    prevProgress, \* <<>> or <<p>>: last percentage reported by earlier steps
    reported,     \* percentages passed to onProgress by the last step
    rounds,       \* history: dimension-reduction rounds so far (saturating)
    encodes,      \* history: canvas.toBlob calls so far (saturating)
    encodedAt,    \* history: quality of the last canvas.toBlob call
    loaded,       \* history: an image load was started
    drawn,        \* history: drawImage was called
    lastBlob,     \* history: size of the blob the last toBlob callback got
    running,      \* the compressImage call whose closure the variables above are
    parked,       \* the closure of the other, suspended compressImage call
    receipts,     \* the Convex table "receipts": a set of documents
    storage,      \* the ids of the files held by Convex file storage
    issued,       \* how many receipt ids and storage ids Convex has handed out
    reply,        \* what the last Convex query returned or threw, and to whom
    sa,           \* the running uploadFile server action: its locals and trace
    hu            \* the running handleUpload of ReceiptDropzone

\* the locals of one compressImage call
callVars == <<opts, file, callNo, pc, ctx, canvas, quality, attempt,
              maxAttempts, result, prevProgress, reported, rounds, encodes,
              encodedAt, loaded, drawn, lastBlob>>

\* what no step of a compressImage call reads or writes
otherVars == <<running, parked, receipts, storage, issued, reply, sa, hu>>

vars == <<impl, opts, file, callNo, pc, ctx, canvas, quality, attempt,
          maxAttempts, result, prevProgress, reported, rounds, encodes,
          encodedAt, loaded, drawn, lastBlob, running, parked, receipts,
          storage, issued, reply, sa, hu>>

\* values of the variables a specification does not use
NoFrame == [pc |-> "absent"]
NoReply == [op |-> "none"]
NoneIssued == [receipts |-> 0, files |-> 0]
NoServerAction == [pc |-> "absent"]
NoUpload == [pc |-> "absent"]

NoResult == [error |-> "pending"]
NoCanvas == [width |-> 0, height |-> 0]
\* document.createElement('canvas') is 300 x 150 until it is resized.
NewCanvas == [width |-> 300, height |-> 150]

\* Byte sizes of files and encodings, and the ceilings they are held against.
ByteSizes == (MaxBytes - 2)..MaxBytes
SizeCeilings == {MaxBytes - 2, MaxBytes - 1}

\* What canvas.toBlob can hand to its callback: null, or an encoding of some
\* size.  A canvas without pixels always yields null.
BlobOutcomes(c) ==
    IF c.width = 0 \/ c.height = 0 THEN {NullBlob}
    ELSE {NullBlob} \cup ByteSizes

\* options.maxWidth / options.maxHeight
MaxWidths == {2, MaxImageWidth}
MaxHeights == {1, MaxImageHeight}

\* options.quality of "lib" in twentieths: 0.1, 0.3 and the default 0.8
QualityLiterals == {2, 6, 16}

\* <<initialQuality, minQuality>> of "unnamed" in tenths; <<9, 3>> is the default
QualityPairs == {<<9, 3>>, <<10, 1>>, <<5, 4>>, <<3, 3>>}

Tenths(t) == t * (QScale \div 10)

\* An input that decodes has pixels; one that does not has no dimensions.
InputFiles ==
    [origin : {"input"}, size : ByteSizes, decodable : {TRUE},
     width : 1..MaxImageWidth, height : 1..MaxImageHeight]
    \cup
    [origin : {"input"}, size : ByteSizes, decodable : {FALSE},
     width : {0}, height : {0}]

\* new File([blob], ...) of an encoding of canvas c
BlobFile(size, c) ==
    [origin |-> "blob", size |-> size, decodable |-> TRUE,
     width |-> c.width, height |-> c.height]

\* new File([null], ...): the text "null", not an image
NullFile ==
    [origin |-> "null", size |-> NullFileSize, decodable |-> FALSE,
     width |-> 0, height |-> 0]

LibOptions ==
    [maxSizeBytes : SizeCeilings, maxWidth : MaxWidths, maxHeight : MaxHeights,
     quality : {DblOfTwentieths(n) : n \in QualityLiterals}]

UnnamedOptions ==
    {[maxSizeBytes |-> c, maxWidth |-> w, maxHeight |-> h,
      initialQuality |-> Tenths(q[1]), minQuality |-> Tenths(q[2])] :
        c \in SizeCeilings, w \in MaxWidths, h \in MaxHeights, q \in QualityPairs}

\* the quality variable of a call before compressToSize / the do loop set it:
\* a double in "lib", a fixed-point number in "unnamed"
NoQuality == IF impl = "lib" THEN Dbl(0, 0) ELSE 0

\* a compressImage call that has not run yet
FreshCall ==
    /\ callNo = 1
    /\ pc = "idle"
    /\ ctx = FALSE
    /\ canvas = NoCanvas
    /\ quality = NoQuality
    /\ attempt = 0
    /\ maxAttempts = 0
    /\ result = NoResult
    /\ prevProgress = <<>>
    /\ reported = <<>>
    /\ rounds = 0
    /\ encodes = 0
    /\ encodedAt = NoQuality
    /\ loaded = FALSE
    /\ drawn = FALSE
    /\ lastBlob = NullBlob

\* nothing but one compressImage call exists
OnlyOneCall ==
    /\ running = 1
    /\ parked = NoFrame
    /\ receipts = {}
    /\ storage = {}
    /\ issued = NoneIssued
    /\ reply = NoReply
    /\ sa = NoServerAction
    /\ hu = NoUpload

Init ==
    /\ impl \in {"lib", "unnamed"}
    /\ opts \in (IF impl = "lib" THEN LibOptions ELSE UnnamedOptions)
    /\ file \in InputFiles
    /\ FreshCall
    /\ OnlyOneCall

(***************************************************************************)
(* Building blocks of the handlers.                                        *)
(***************************************************************************)
Sat(n, bound) == IF n < bound THEN n ELSE bound

\* options.onProgress is called with each element of seq, in order
Emit(seq) ==
    /\ reported' = seq
    /\ prevProgress' = IF reported = <<>> THEN prevProgress
                       ELSE <<reported[Len(reported)]>>

\* Mutant: the early exit compares with < instead of <=.
AlreadySmallEnoughStrict(f, o) == f.size < o.maxSizeBytes

\* file.size <= options.maxSizeBytes, the early exit of both compressImage
AlreadySmallEnough(f, o) == f.size <= o.maxSizeBytes

\* Mutant: an encoding one byte over the ceiling is accepted.
MeetsSizeOffByOne(size, o) == size <= o.maxSizeBytes + 1

\* blob.size <= options.maxSizeBytes / compressedFile.size <= opts.maxSizeBytes
MeetsSize(size, o) == size <= o.maxSizeBytes

Resolve(f) == /\ pc' = "resolved" /\ result' = f

Reject(msg) == /\ pc' = "rejected" /\ result' = [error |-> msg]

\* canvas.toBlob(..., q) is called on canvas c; its callback is pending
RequestBlob(c, q) ==
    /\ canvas' = c
    /\ encodes' = Sat(encodes + 1, MaxEncodes)
    /\ encodedAt' = q
    /\ pc' = "encoding"
    /\ UNCHANGED result

(***************************************************************************)
(* src/lib/imageCompression.ts                                             *)
(***************************************************************************)
\* One pass through the head of the while loop of compressToSize, whose
\* condition quality >= minQuality held: attempt++, report, call toBlob.
StartAttempt(c, q, att, ma, pre, rnds) ==
    /\ quality' = q
    /\ attempt' = att
    /\ maxAttempts' = ma
    /\ rounds' = rnds
    /\ Emit(pre \o <<ProgressLib(att, ma)>>)
    /\ RequestBlob(c, q)

\* The code after the while loop: report 85, build a canvas of 80% of each
\* axis, draw into it and call compressToSize on it with quality 0.8.  That
\* call runs up to its first toBlob, 0.8 >= minQuality being true.
ReduceDimensions(c, q, att, ma, pre) ==
    LET out == pre \o <<Pct(85)>>
        smallerCanvas == [width |-> Round80(c.width),
                          height |-> Round80(c.height)]
    IN  \E smallerCtx \in BOOLEAN :
          IF ~smallerCtx \/ c.width = 0 \/ c.height = 0
          THEN \* no context, or drawImage of a canvas without pixels throws
               /\ Reject(IF ~smallerCtx
                         THEN "Failed to create smaller canvas context"
                         ELSE "InvalidStateError")
               /\ Emit(out)
               /\ quality' = q
               /\ attempt' = att
               /\ maxAttempts' = ma
               /\ UNCHANGED <<canvas, rounds, encodes, encodedAt>>
          ELSE StartAttempt(smallerCanvas, RestartQuality, 1,
                            MaxAttemptsOf(RestartQuality), out,
                            Sat(rounds + 1, MaxRounds))

\* compressToSize(canvas, options, name) up to its first suspension
compressToSize(c, q0, pre) ==
    IF DblGe(q0, minQuality)
    THEN StartAttempt(c, q0, 1, MaxAttemptsOf(q0), pre, rounds)
    ELSE ReduceDimensions(c, q0, 0, MaxAttemptsOf(q0), pre)

\* Mutant: compressImage without its early exit, every file is loaded.
LibCompressImageNoEarlyExit ==
    /\ impl = "lib"
    /\ pc = "idle"
    /\ Emit(<<Pct(10)>>)
    /\ canvas' = NewCanvas
    /\ ctx' \in BOOLEAN
    /\ loaded' = TRUE
    /\ pc' = "loading"
    /\ UNCHANGED <<impl, opts, file, callNo, quality, attempt, maxAttempts,
                   result, rounds, encodes, encodedAt, drawn>>
    /\ UNCHANGED <<lastBlob, otherVars>>

\* compressImage(file, options) up to img.src = ...
LibCompressImage ==
    /\ impl = "lib"
    /\ pc = "idle"
    /\ IF AlreadySmallEnough(file, opts)
       THEN /\ Emit(<<Pct(100)>>)
            /\ Resolve(file)
            /\ UNCHANGED <<ctx, canvas, loaded>>
       ELSE /\ Emit(<<Pct(10)>>)
            /\ canvas' = NewCanvas
            /\ ctx' \in BOOLEAN
            /\ loaded' = TRUE
            /\ pc' = "loading"
            /\ UNCHANGED result
    /\ UNCHANGED <<impl, opts, file, callNo, quality, attempt, maxAttempts,
                   rounds, encodes, encodedAt, drawn>>
    /\ UNCHANGED <<lastBlob, otherVars>>

\* img.onload
LibImgOnload ==
    /\ impl = "lib"
    /\ pc = "loading"
    /\ file.decodable
    /\ LET d == calculateDimensions(file.width, file.height,
                                    opts.maxWidth, opts.maxHeight)
       IN  IF ~ctx
           THEN /\ Reject("Failed to get canvas context")
                /\ Emit(<<Pct(20)>>)
                /\ canvas' = d
                /\ UNCHANGED <<quality, attempt, maxAttempts, rounds, encodes,
                               encodedAt, drawn>>
           ELSE /\ drawn' = TRUE
                /\ compressToSize(d, opts.quality,
                                  <<Pct(20), Pct(40), Pct(60), Pct(80)>>)
    /\ UNCHANGED <<impl, opts, file, callNo, ctx, loaded>>
    /\ UNCHANGED <<lastBlob, otherVars>>

\* Mutant: a failed load falls back to resolving with the original file.
LibImgOnerrorFallsBack ==
    /\ impl = "lib"
    /\ pc = "loading"
    /\ ~file.decodable
    /\ Resolve(file)
    /\ Emit(<<>>)
    /\ UNCHANGED <<impl, opts, file, callNo, ctx, canvas, quality, attempt,
                   maxAttempts, rounds, encodes, encodedAt, loaded, drawn>>
    /\ UNCHANGED <<lastBlob, otherVars>>

\* img.onerror
LibImgOnerror ==
    /\ impl = "lib"
    /\ pc = "loading"
    /\ ~file.decodable
    /\ Reject("Failed to load image")
    /\ Emit(<<>>)
    /\ UNCHANGED <<impl, opts, file, callNo, ctx, canvas, quality, attempt,
                   maxAttempts, rounds, encodes, encodedAt, loaded, drawn>>
    /\ UNCHANGED <<lastBlob, otherVars>>

\* The callback of canvas.toBlob resumes compressToSize after its await.
LibToBlobCallback ==
    /\ impl = "lib"
    /\ pc = "encoding"
    /\ \E blob \in BlobOutcomes(canvas) :
      /\ lastBlob' = blob
      /\ IF blob = NullBlob
         THEN /\ Reject("Failed to create blob from canvas")
              /\ Emit(<<>>)
              /\ UNCHANGED <<canvas, quality, attempt, maxAttempts, rounds,
                             encodes, encodedAt>>
         ELSE IF MeetsSize(blob, opts)
         THEN /\ Resolve(BlobFile(blob, canvas))
              /\ Emit(<<Pct(98), Pct(100)>>)
              /\ UNCHANGED <<canvas, quality, attempt, maxAttempts, rounds,
                             encodes, encodedAt>>
         ELSE LET q == DblSub(quality, qualityStep)
              IN  IF DblGe(q, minQuality)
                  THEN StartAttempt(canvas, q, attempt + 1, maxAttempts,
                                    <<>>, rounds)
                  ELSE ReduceDimensions(canvas, q, attempt, maxAttempts, <<>>)
    /\ UNCHANGED <<impl, opts, file, callNo, ctx, loaded, drawn>>
    /\ UNCHANGED otherVars

(***************************************************************************)
(* src/unnamed/part_001                                                    *)
(***************************************************************************)
\* compressImage(file, options) up to await loadImage(file)
UnnamedCompressImage ==
    /\ impl = "unnamed"
    /\ pc = "idle"
    /\ IF AlreadySmallEnough(file, opts)
       THEN /\ Emit(<<>>)
            /\ Resolve(file)
            /\ UNCHANGED <<ctx, canvas, loaded>>
       ELSE /\ Emit(<<Pct(10)>>)
            /\ canvas' = NewCanvas
            /\ \E c \in BOOLEAN :
                 /\ ctx' = c
                 /\ IF c
                    THEN /\ loaded' = TRUE
                         /\ pc' = "loading"
                         /\ UNCHANGED result
                    ELSE /\ Reject("Could not get canvas context")
                         /\ UNCHANGED loaded
    /\ UNCHANGED <<impl, opts, file, callNo, quality, attempt, maxAttempts,
                   rounds, encodes, encodedAt, drawn>>
    /\ UNCHANGED <<lastBlob, otherVars>>

\* loadImage resolved: resize, draw, first pass of the do loop up to toBlob
UnnamedImgOnload ==
    /\ impl = "unnamed"
    /\ pc = "loading"
    /\ file.decodable
    /\ LET d == calculateOptimalDimensions(file.width, file.height,
                                           opts.maxWidth, opts.maxHeight)
       IN  /\ drawn' = TRUE
           /\ Emit(<<Pct(30), Pct(50)>>)
           /\ quality' = opts.initialQuality
           /\ attempt' = 0
           /\ maxAttempts' = maxAttemptsUnnamed
           /\ RequestBlob(d, opts.initialQuality)
    /\ UNCHANGED <<impl, opts, file, callNo, ctx, rounds, loaded>>
    /\ UNCHANGED <<lastBlob, otherVars>>

\* loadImage rejected
UnnamedImgOnerror ==
    /\ impl = "unnamed"
    /\ pc = "loading"
    /\ ~file.decodable
    /\ Reject("Failed to load image")
    /\ Emit(<<>>)
    /\ UNCHANGED <<impl, opts, file, callNo, ctx, canvas, quality, attempt,
                   maxAttempts, rounds, encodes, encodedAt, loaded, drawn>>
    /\ UNCHANGED <<lastBlob, otherVars>>

\* The callback of canvas.toBlob resumes the do loop after its await.
UnnamedToBlobCallback ==
    /\ impl = "unnamed"
    /\ pc = "encoding"
    /\ \E blob \in BlobOutcomes(canvas) :
      /\ lastBlob' = blob
      /\ LET compressedFile == IF blob = NullBlob THEN NullFile
                               ELSE BlobFile(blob, canvas)
             p == ProgressUnnamed(attempt)
             q == NextQualityUnnamed(quality, opts.minQuality)
         IN  IF \/ MeetsSize(compressedFile.size, opts)
                \/ quality <= opts.minQuality
             THEN \* break
                  /\ Resolve(compressedFile)
                  /\ Emit(<<p, Pct(100)>>)
                  /\ UNCHANGED <<canvas, quality, attempt, encodes, encodedAt>>
             ELSE IF attempt + 1 < maxAttemptsUnnamed
             THEN /\ quality' = q
                  /\ attempt' = attempt + 1
                  /\ Emit(<<p>>)
                  /\ RequestBlob(canvas, q)
             ELSE \* the while condition fails
                  /\ quality' = q
                  /\ attempt' = attempt + 1
                  /\ Resolve(compressedFile)
                  /\ Emit(<<p, Pct(100)>>)
                  /\ UNCHANGED <<canvas, encodes, encodedAt>>
    /\ UNCHANGED <<impl, opts, file, callNo, ctx, maxAttempts, rounds, loaded,
                   drawn>>
    /\ UNCHANGED otherVars

(***************************************************************************)
(* The caller compresses the file it got back, with the same options.      *)
(***************************************************************************)
Recompress ==
    /\ pc = "resolved"
    /\ callNo = 1
    /\ file' = result
    /\ callNo' = 2
    /\ pc' = "idle"
    /\ ctx' = FALSE
    /\ canvas' = NoCanvas
    /\ quality' = NoQuality
    /\ attempt' = 0
    /\ maxAttempts' = 0
    /\ result' = NoResult
    /\ prevProgress' = <<>>
    /\ reported' = <<>>
    /\ rounds' = 0
    /\ encodes' = 0
    /\ encodedAt' = NoQuality
    /\ loaded' = FALSE
    /\ drawn' = FALSE
    /\ lastBlob' = NullBlob
    /\ UNCHANGED <<impl, opts>>
    /\ UNCHANGED otherVars

Next ==
    \/ LibCompressImage
    \/ LibImgOnload
    \/ LibImgOnerror
    \/ LibToBlobCallback
    \/ UnnamedCompressImage
    \/ UnnamedImgOnload
    \/ UnnamedImgOnerror
    \/ UnnamedToBlobCallback
    \/ Recompress

Spec == Init /\ [][Next]_vars

\* The browser eventually delivers every pending event (load, error, the
\* toBlob callback) and a call that was made runs; the caller is free never
\* to compress the result again.
FairSpec ==
    /\ Spec
    /\ WF_vars(LibCompressImage)
    /\ WF_vars(LibImgOnload)
    /\ WF_vars(LibImgOnerror)
    /\ WF_vars(LibToBlobCallback)
    /\ WF_vars(UnnamedCompressImage)
    /\ WF_vars(UnnamedImgOnload)
    /\ WF_vars(UnnamedImgOnerror)
    /\ WF_vars(UnnamedToBlobCallback)

(***************************************************************************)
(* Two compressImage calls in flight at once.  Every local of a call lives *)
(* in the closure of that call; the event loop runs one handler at a time  *)
(* and may resume either call whenever the other waits at an await.        *)
(***************************************************************************)
\* the closure of the running call as one value
Frame ==
    [opts |-> opts, file |-> file, callNo |-> callNo, pc |-> pc, ctx |-> ctx,
     canvas |-> canvas, quality |-> quality, attempt |-> attempt,
     maxAttempts |-> maxAttempts, result |-> result,
     prevProgress |-> prevProgress, reported |-> reported, rounds |-> rounds,
     encodes |-> encodes, encodedAt |-> encodedAt, loaded |-> loaded,
     drawn |-> drawn, lastBlob |-> lastBlob]

\* the closure of compressImage(f, o) before its first statement
FreshFrame(f, o) ==
    [opts |-> o, file |-> f, callNo |-> 1, pc |-> "idle", ctx |-> FALSE,
     canvas |-> NoCanvas, quality |-> NoQuality, attempt |-> 0,
     maxAttempts |-> 0,
     result |-> NoResult, prevProgress |-> <<>>, reported |-> <<>>,
     rounds |-> 0, encodes |-> 0, encodedAt |-> NoQuality,
     loaded |-> FALSE,
     drawn |-> FALSE, lastBlob |-> NullBlob]

\* the running call gets the closure fr
Resume(fr) ==
    /\ opts' = fr.opts
    /\ file' = fr.file
    /\ callNo' = fr.callNo
    /\ pc' = fr.pc
    /\ ctx' = fr.ctx
    /\ quality' = fr.quality
    /\ attempt' = fr.attempt
    /\ maxAttempts' = fr.maxAttempts
    /\ result' = fr.result
    /\ prevProgress' = fr.prevProgress
    /\ reported' = fr.reported
    /\ rounds' = fr.rounds
    /\ encodes' = fr.encodes
    /\ encodedAt' = fr.encodedAt
    /\ loaded' = fr.loaded
    /\ drawn' = fr.drawn
    /\ lastBlob' = fr.lastBlob

\* Mutant: canvas is one element of the module that every call works on.
SwitchSharedCanvas ==
    /\ parked.pc # "absent"
    /\ parked' = Frame
    /\ running' = 3 - running
    /\ Resume(parked)
    /\ UNCHANGED <<impl, canvas, receipts, storage, issued, reply, sa, hu>>

\* The running call waits at an await (every state is one) and the event
\* loop turns to the other call: const canvas, ctx, img and the locals of
\* compressToSize belong to the call that declared them.
Switch ==
    /\ parked.pc # "absent"
    /\ parked' = Frame
    /\ running' = 3 - running
    /\ Resume(parked)
    /\ canvas' = parked.canvas
    /\ UNCHANGED <<impl, receipts, storage, issued, reply, sa, hu>>

\* The first call gets the largest image, the second one a smaller image or
\* a file that does not decode; each call has options of its own.
FirstCallFile ==
    [origin |-> "input", size |-> MaxBytes, decodable |-> TRUE,
     width |-> MaxImageWidth, height |-> MaxImageHeight]

SecondCallFiles ==
    {[origin |-> "input", size |-> MaxBytes, decodable |-> TRUE,
      width |-> MaxImageWidth \div 2, height |-> MaxImageHeight],
     [origin |-> "input", size |-> MaxBytes, decodable |-> FALSE,
      width |-> 0, height |-> 0]}

\* the first call runs with the defaults of the implementation
FirstCallOptions ==
    IF impl = "lib"
    THEN [maxSizeBytes |-> MaxBytes - 2, maxWidth |-> MaxImageWidth,
          maxHeight |-> MaxImageHeight, quality |-> DblOfTwentieths(16)]
    ELSE [maxSizeBytes |-> MaxBytes - 2, maxWidth |-> MaxImageWidth,
          maxHeight |-> MaxImageHeight, initialQuality |-> Tenths(9),
          minQuality |-> Tenths(3)]

\* the second call asks for a narrower image and may start lower
SecondCallOptions ==
    IF impl = "lib"
    THEN {[maxSizeBytes |-> MaxBytes - 1, maxWidth |-> 2,
           maxHeight |-> MaxImageHeight, quality |-> DblOfTwentieths(n)] :
             n \in {6, 16}}
    ELSE {[maxSizeBytes |-> MaxBytes - 1, maxWidth |-> 2,
           maxHeight |-> MaxImageHeight, initialQuality |-> Tenths(q[1]),
           minQuality |-> Tenths(q[2])] : q \in {<<9, 3>>, <<5, 4>>}}

ConcurrentInit ==
    /\ impl \in {"lib", "unnamed"}
    /\ opts = FirstCallOptions
    /\ file = FirstCallFile
    /\ FreshCall
    /\ running = 1
    /\ parked \in {FreshFrame(f, o) : f \in SecondCallFiles,
                                      o \in SecondCallOptions}
    /\ receipts = {}
    /\ storage = {}
    /\ issued = NoneIssued
    /\ reply = NoReply
    /\ sa = NoServerAction
    /\ hu = NoUpload

ConcurrentNext ==
    \/ LibCompressImage
    \/ LibImgOnload
    \/ LibImgOnerror
    \/ LibToBlobCallback
    \/ UnnamedCompressImage
    \/ UnnamedImgOnload
    \/ UnnamedImgOnerror
    \/ UnnamedToBlobCallback
    \/ Switch

ConcurrentSpec == ConcurrentInit /\ [][ConcurrentNext]_vars

(***************************************************************************)
(* The dimension calculators on their own, for every image size and every  *)
(* pair of bounds.                                                         *)
(***************************************************************************)
\* maxWidth and maxHeight, equal or unequal, below, at and above the image
AllBounds == (1..MaxImageWidth) \X (1..MaxImageHeight)

DimensionsInit ==
    /\ impl \in {"lib", "unnamed"}
    /\ file \in {f \in InputFiles : f.decodable /\ f.size = MaxBytes}
    /\ \E b \in AllBounds :
         opts = IF impl = "lib"
                THEN [maxSizeBytes |-> MaxBytes - 1, maxWidth |-> b[1],
                      maxHeight |-> b[2], quality |-> RestartQuality]
                ELSE [maxSizeBytes |-> MaxBytes - 1, maxWidth |-> b[1],
                      maxHeight |-> b[2], initialQuality |-> Tenths(9),
                      minQuality |-> Tenths(3)]
    /\ FreshCall
    /\ OnlyOneCall

\* const { width, height } = calculateDimensions(img.width, img.height, ...);
\* canvas.width = width; canvas.height = height
ApplyCalculateDimensions ==
    /\ impl = "lib"
    /\ pc = "idle"
    /\ canvas' = calculateDimensions(file.width, file.height,
                                     opts.maxWidth, opts.maxHeight)
    /\ pc' = "sized"
    /\ UNCHANGED <<impl, opts, file, callNo, ctx, quality, attempt,
                   maxAttempts, result, prevProgress, reported, rounds,
                   encodes, encodedAt, loaded, drawn, lastBlob, otherVars>>

\* const { width, height } = calculateOptimalDimensions(img.width, ...);
\* canvas.width = width; canvas.height = height
ApplyCalculateOptimalDimensions ==
    /\ impl = "unnamed"
    /\ pc = "idle"
    /\ canvas' = calculateOptimalDimensions(file.width, file.height,
                                            opts.maxWidth, opts.maxHeight)
    /\ pc' = "sized"
    /\ UNCHANGED <<impl, opts, file, callNo, ctx, quality, attempt,
                   maxAttempts, result, prevProgress, reported, rounds,
                   encodes, encodedAt, loaded, drawn, lastBlob, otherVars>>

DimensionsNext ==
    \/ ApplyCalculateDimensions
    \/ ApplyCalculateOptimalDimensions

DimensionsSpec == DimensionsInit /\ [][DimensionsNext]_vars

(***************************************************************************)
(* src/unnamed/part_002: the Convex functions on the table "receipts", and *)
(* src/actions/uploadPDF.ts: the server action uploadFile that calls them. *)
(***************************************************************************)
\* Clerk user ids; identity.subject of an authenticated caller is one of them
Users == {"alice", "bob"}
\* ctx.auth.getUserIdentity() returned null / currentUser() returned null
Anonymous == "anonymous"
Identities == Users \cup {Anonymous}

\* audit_decision of a processing result / the audit flags of a receipt
AuditFlags(travel, limit, math, x, audit) ==
    [not_travel_related |-> travel, amount_over_limit |-> limit,
     math_error |-> math, handwritten_x |-> x, needs_audit |-> audit]

\* the flags storeReceipt initialises a receipt with
NoFlags == AuditFlags(FALSE, FALSE, FALSE, FALSE, FALSE)

\* the audit decisions the processing service returns: no flag raised, or
\* some flags raised and others not
AuditDecisions == {NoFlags, AuditFlags(FALSE, TRUE, TRUE, FALSE, TRUE)}

\* result.output.audit_decision as uploadFile passes it on: the flags raised
\* by the processing service in the modelled answers (the mutation itself
\* takes every value of AuditDecisions, see updateReceiptWithProcessingResult)
ServiceAuditDecision == AuditFlags(FALSE, TRUE, TRUE, FALSE, TRUE)

\* a document of "receipts" as storeReceipt inserts it
NewReceipt(userId, fileId) ==
    [id |-> issued.receipts + 1, userId |-> userId, fileId |-> fileId,
     status |-> "pending", processing_successful |-> FALSE,
     audit |-> NoFlags]

\* Mutant: the patch of updateReceiptWithProcessingResult always sets
\* status 'processed'.
PatchedWithResultAlwaysProcessed(id, successful, audit) ==
    {IF r.id = id
     THEN [r EXCEPT !.status = "processed",
                    !.processing_successful = successful, !.audit = audit]
     ELSE r : r \in receipts}

\* ctx.db.patch(args.id, {...}) of updateReceiptWithProcessingResult
PatchedWithResult(id, successful, audit) ==
    {IF r.id = id
     THEN [r EXCEPT !.status = IF successful THEN "processed" ELSE "error",
                    !.processing_successful = successful, !.audit = audit]
     ELSE r : r \in receipts}

\* ctx.db.patch(id, [status, processing_successful])
Patched(id, status, successful) ==
    {IF r.id = id
     THEN [r EXCEPT !.status = status, !.processing_successful = successful]
     ELSE r : r \in receipts}

\* ctx.db.get(id): the documents with that id, none when it is missing
Got(id) == {r \in receipts : r.id = id}

\* what a query hands back to its caller
Returned(op, caller, arg, docs) ==
    [op |-> op, caller |-> caller, arg |-> arg, error |-> "", docs |-> docs]

Threw(op, caller, arg, msg) ==
    [op |-> op, caller |-> caller, arg |-> arg, error |-> msg, docs |-> {}]

\* the server action and the queries leave the compressor alone
NoCompression ==
    /\ impl = "lib"
    /\ opts = FirstCallOptions
    /\ file = FirstCallFile
    /\ FreshCall
    /\ running = 1
    /\ parked = NoFrame

\* query getReceipts({userId}), from any client of the deployment
getReceipts ==
    /\ \E caller \in Identities, userId \in Users :
         reply' = Returned("getReceipts", caller, userId,
                           {r \in receipts : r.userId = userId})
    /\ UNCHANGED <<impl, callVars, running, parked, receipts, storage, issued,
                   sa, hu>>

\* Mutant: getReceiptById without the comparison of userId with the subject.
getReceiptByIdAnyUser ==
    /\ \E caller \in Identities, id \in 1..(MaxReceipts + 1) :
         reply' = IF Got(id) # {} /\ caller = Anonymous
                  THEN Threw("getReceiptById", caller, id, "Not Authorized")
                  ELSE Returned("getReceiptById", caller, id, Got(id))
    /\ UNCHANGED <<impl, callVars, running, parked, receipts, storage, issued,
                   sa, hu>>

\* query getReceiptById({id}), from any client of the deployment
getReceiptById ==
    /\ \E caller \in Identities, id \in 1..(MaxReceipts + 1) :
         reply' = IF Got(id) # {} /\ caller = Anonymous
                  THEN Threw("getReceiptById", caller, id, "Not Authorized")
                  ELSE IF \E r \in Got(id) : r.userId # caller
                  THEN Threw("getReceiptById", caller, id,
                             "Not authorized to access this receipt")
                  ELSE Returned("getReceiptById", caller, id, Got(id))
    /\ UNCHANGED <<impl, callVars, running, parked, receipts, storage, issued,
                   sa, hu>>

\* formData.get('file'): an image, a PDF, a file of another type, or nothing
FormFiles == {"image", "pdf", "other", "none"}

\* what uploadFile returns
Failure(msg) ==
    [success |-> FALSE, error |-> msg, receiptId |-> 0,
     processingSuccessful |-> FALSE]

Success(receiptId, successful) ==
    [success |-> TRUE, error |-> "", receiptId |-> receiptId,
     processingSuccessful |-> successful]

\* the trace of uploadFile after it issued the request `name`
Issued(name) == Append(sa.trace, name)

\* the outer catch of uploadFile
OuterCatch(msg) == [sa EXCEPT !.pc = "returned", !.ret = Failure(msg)]

\* the inner catch of uploadFile up to its await
InnerCatch(a) ==
    [a EXCEPT !.pc = "catch", !.trace = Append(a.trace, "updateReceiptWithError")]

\* processingResult?.processing_successful || false
ProcessingSuccessful == sa.processingResult = "successful"

ServerFrame == UNCHANGED <<impl, callVars, running, parked, reply, hu>>

\* uploadFile(formData) is called and awaits currentUser()
uploadFile ==
    /\ sa.pc \in {"absent", "returned"}
    /\ issued.receipts < MaxReceipts
    /\ issued.files < MaxReceipts
    /\ \E user \in Identities, f \in FormFiles :
         sa' = [pc |-> "currentUser", user |-> user, file |-> f,
                before |-> [receipts |-> receipts, storage |-> storage],
                storageId |-> 0, receiptId |-> 0, processing |-> "none",
                processingResult |-> "null",
                resultRecorded |-> FALSE, errorRecorded |-> FALSE,
                trace |-> <<>>, ret |-> Failure("pending")]
    /\ UNCHANGED <<receipts, storage, issued>>
    /\ ServerFrame

\* Mutant: uploadFile without the check of the file type.
CurrentUserResolvedAnyType ==
    /\ sa.pc = "currentUser"
    /\ sa' = IF sa.user = Anonymous
             THEN [sa EXCEPT !.pc = "returned",
                             !.ret = Failure("Not Authorized")]
             ELSE IF sa.file = "none"
             THEN [sa EXCEPT !.pc = "returned",
                             !.ret = Failure("No file provided")]
             ELSE [sa EXCEPT !.pc = "generateUploadUrl",
                             !.trace = Issued("generateUploadUrl")]
    /\ UNCHANGED <<receipts, storage, issued>>
    /\ ServerFrame

\* currentUser() resolved: the three checks, then generateUploadUrl is called
CurrentUserResolved ==
    /\ sa.pc = "currentUser"
    /\ sa' = IF sa.user = Anonymous
             THEN [sa EXCEPT !.pc = "returned",
                             !.ret = Failure("Not Authorized")]
             ELSE IF sa.file = "none"
             THEN [sa EXCEPT !.pc = "returned",
                             !.ret = Failure("No file provided")]
             ELSE IF sa.file \notin {"image", "pdf"}
             THEN [sa EXCEPT !.pc = "returned",
                             !.ret = Failure("Only image and PDF files")]
             ELSE [sa EXCEPT !.pc = "generateUploadUrl",
                             !.trace = Issued("generateUploadUrl")]
    /\ UNCHANGED <<receipts, storage, issued>>
    /\ ServerFrame

\* generateUploadUrl resolved or threw; on a URL the file is posted to it
UploadUrlGenerated ==
    /\ sa.pc = "generateUploadUrl"
    /\ \E ok \in BOOLEAN :
         sa' = IF ok
               THEN [sa EXCEPT !.pc = "storagePost",
                               !.trace = Issued("storagePost")]
               ELSE OuterCatch("generateUploadUrl failed")
    /\ UNCHANGED <<receipts, storage, issued>>
    /\ ServerFrame

\* Mutant: uploadFile goes on to storeReceipt whatever uploadResponse.ok is.
StorageRespondedUnchecked ==
    /\ sa.pc = "storagePost"
    /\ \E ok \in BOOLEAN :
         /\ storage' = IF ok THEN storage \cup {issued.files + 1}
                       ELSE storage
         /\ issued' = IF ok THEN [issued EXCEPT !.files = @ + 1] ELSE issued
         /\ sa' = [sa EXCEPT !.pc = "storeReceipt",
                             !.storageId = IF ok THEN issued.files + 1 ELSE 0,
                             !.trace = Issued("storeReceipt")]
    /\ UNCHANGED receipts
    /\ ServerFrame

\* the POST to the upload URL was answered; if uploadResponse.ok the file is
\* in storage and storeReceipt is called with its storageId
StorageResponded ==
    /\ sa.pc = "storagePost"
    /\ \E ok \in BOOLEAN :
         IF ok
         THEN /\ storage' = storage \cup {issued.files + 1}
              /\ issued' = [issued EXCEPT !.files = @ + 1]
              /\ sa' = [sa EXCEPT !.pc = "storeReceipt",
                                  !.storageId = issued.files + 1,
                                  !.trace = Issued("storeReceipt")]
         ELSE /\ sa' = OuterCatch("Failed to upload file")
              /\ UNCHANGED <<storage, issued>>
    /\ UNCHANGED receipts
    /\ ServerFrame

\* storeReceipt inserted the receipt and resolved with its id, or threw;
\* on an id getFileDownloadUrl is called
ReceiptStored ==
    /\ sa.pc = "storeReceipt"
    /\ \E ok \in BOOLEAN :
         IF ok
         THEN /\ receipts' = receipts \cup {NewReceipt(sa.user, sa.storageId)}
              /\ issued' = [issued EXCEPT !.receipts = @ + 1]
              /\ sa' = [sa EXCEPT !.pc = "getFileDownloadUrl",
                                  !.receiptId = issued.receipts + 1,
                                  !.trace = Issued("getFileDownloadUrl")]
         ELSE /\ sa' = OuterCatch("storeReceipt failed")
              /\ UNCHANGED <<receipts, issued>>
    /\ UNCHANGED storage
    /\ ServerFrame

\* getFileDownloadUrl resolved: it catches every error of its own and
\* uploadFile does not look at what it returns; the file is posted to the
\* processing service
DownloadUrlResolved ==
    /\ sa.pc = "getFileDownloadUrl"
    /\ sa' = [sa EXCEPT !.pc = "processReceipt",
                        !.trace = Issued("processReceipt")]
    /\ UNCHANGED <<receipts, storage, issued>>
    /\ ServerFrame

\* what became of fetch(`${API_BASE_URL}/process-receipt`): an OK response
\* with a result, an OK response whose body does not parse, a non-OK
\* response, or an exception
ProcessingOutcomes ==
    {"successful", "unsuccessful", "unparsable", "notOk", "threw"}

\* the processing request was answered or threw
ProcessingResponded ==
    /\ sa.pc = "processReceipt"
    /\ \E outcome \in ProcessingOutcomes :
         sa' = IF outcome \in {"successful", "unsuccessful"}
               THEN [sa EXCEPT
                       !.processing = "ok",
                       !.processingResult = outcome,
                       !.pc = "updateReceiptWithProcessingResult",
                       !.trace = Issued("updateReceiptWithProcessingResult")]
               ELSE IF outcome = "unparsable"
               THEN InnerCatch([sa EXCEPT !.processing = "ok"])
               ELSE IF outcome = "notOk"
               THEN [sa EXCEPT !.processing = "notOk",
                               !.pc = "updateReceiptWithError",
                               !.trace = Issued("updateReceiptWithError")]
               ELSE InnerCatch([sa EXCEPT !.processing = "threw"])
    /\ UNCHANGED <<receipts, storage, issued>>
    /\ ServerFrame

\* Mutant: the scan event is tracked whether or not the update completed.
ProcessingResultRecordedTracksAnyway ==
    /\ sa.pc = "updateReceiptWithProcessingResult"
    /\ \E ok \in BOOLEAN :
         IF ok
         THEN /\ receipts' = PatchedWithResult(sa.receiptId,
                                               ProcessingSuccessful,
                                               ServiceAuditDecision)
              /\ sa' = [sa EXCEPT !.pc = "track", !.resultRecorded = TRUE,
                                  !.trace = Issued("track")]
         ELSE /\ sa' = [sa EXCEPT !.pc = "track", !.trace = Issued("track")]
              /\ UNCHANGED receipts
    /\ UNCHANGED <<storage, issued>>
    /\ ServerFrame

\* updateReceiptWithProcessingResult patched the receipt, or threw; after the
\* patch the scan event is tracked
ProcessingResultRecorded ==
    /\ sa.pc = "updateReceiptWithProcessingResult"
    /\ \E ok \in BOOLEAN :
         IF ok
         THEN /\ receipts' = PatchedWithResult(sa.receiptId,
                                               ProcessingSuccessful,
                                               ServiceAuditDecision)
              /\ sa' = [sa EXCEPT !.pc = "track", !.resultRecorded = TRUE,
                                  !.trace = Issued("track")]
         ELSE /\ sa' = InnerCatch(sa)
              /\ UNCHANGED receipts
    /\ UNCHANGED <<storage, issued>>
    /\ ServerFrame

\* client.track resolved or threw
ScanTracked ==
    /\ sa.pc = "track"
    /\ \E ok \in BOOLEAN :
         sa' = IF ok
               THEN [sa EXCEPT !.pc = "returned",
                               !.ret = Success(sa.receiptId,
                                               ProcessingSuccessful)]
               ELSE InnerCatch(sa)
    /\ UNCHANGED <<receipts, storage, issued>>
    /\ ServerFrame

\* updateReceiptWithError, called for a non-OK response, patched the receipt
\* or threw
ErrorRecorded ==
    /\ sa.pc = "updateReceiptWithError"
    /\ \E ok \in BOOLEAN :
         IF ok
         THEN /\ receipts' = Patched(sa.receiptId, "error", FALSE)
              /\ sa' = [sa EXCEPT !.pc = "returned",
                                  !.errorRecorded = TRUE,
                                  !.ret = Success(sa.receiptId,
                                                  ProcessingSuccessful)]
         ELSE /\ sa' = InnerCatch(sa)
              /\ UNCHANGED receipts
    /\ UNCHANGED <<storage, issued>>
    /\ ServerFrame

\* Mutant: the inner catch rethrows after it recorded the error.
ErrorRecordedInCatchRethrows ==
    /\ sa.pc = "catch"
    /\ \E ok \in BOOLEAN :
         IF ok
         THEN /\ receipts' = Patched(sa.receiptId, "error", FALSE)
              /\ sa' = [sa EXCEPT !.pc = "returned",
                                  !.errorRecorded = TRUE,
                                  !.ret = Failure("Processing failed")]
         ELSE /\ sa' = OuterCatch("updateReceiptWithError failed")
              /\ UNCHANGED receipts
    /\ UNCHANGED <<storage, issued>>
    /\ ServerFrame

\* updateReceiptWithError, called in the inner catch, patched the receipt or
\* threw into the outer catch
ErrorRecordedInCatch ==
    /\ sa.pc = "catch"
    /\ \E ok \in BOOLEAN :
         IF ok
         THEN /\ receipts' = Patched(sa.receiptId, "error", FALSE)
              /\ sa' = [sa EXCEPT !.pc = "returned",
                                  !.errorRecorded = TRUE,
                                  !.ret = Success(sa.receiptId,
                                                  ProcessingSuccessful)]
         ELSE /\ sa' = OuterCatch("updateReceiptWithError failed")
              /\ UNCHANGED receipts
    /\ UNCHANGED <<storage, issued>>
    /\ ServerFrame

ServerInit ==
    /\ NoCompression
    /\ receipts = {}
    /\ storage = {}
    /\ issued = NoneIssued
    /\ reply = NoReply
    /\ sa = NoServerAction
    /\ hu = NoUpload

ServerNext ==
    \/ uploadFile
    \/ CurrentUserResolved
    \/ UploadUrlGenerated
    \/ StorageResponded
    \/ ReceiptStored
    \/ DownloadUrlResolved
    \/ ProcessingResponded
    \/ ProcessingResultRecorded
    \/ ScanTracked
    \/ ErrorRecorded
    \/ ErrorRecordedInCatch
    \/ getReceipts
    \/ getReceiptById

ServerSpec == ServerInit /\ [][ServerNext]_vars

(***************************************************************************)
(* convex/receipts: the public mutations, called by any client of the      *)
(* deployment.  A mutation is one transaction: it commits all its writes   *)
(* or, when it throws, none of them.                                       *)
(***************************************************************************)

\* the mutations and queries leave the compressor, uploadFile and
\* handleUpload alone
ReceiptsFrame == UNCHANGED <<impl, callVars, running, parked, sa, hu>>

\* the caller of a handler that never asks for ctx.auth.getUserIdentity()
NotAsked == "not asked"

\* the ids of the "receipts" table a client may pass: those issued so far
\* and one that was never issued
ReceiptIds == 1..(MaxReceipts + 1)

\* args.status of updateReceiptStatus: v.string()
Statuses == {"pending", "processed", "error"}

\* a client posted a file to an upload URL of generateUploadUrl: the file is
\* in storage under a new storageId
UploadToUrl ==
    /\ issued.files < MaxReceipts
    /\ storage' = storage \cup {issued.files + 1}
    /\ issued' = [issued EXCEPT !.files = @ + 1]
    /\ reply' = Returned("upload", NotAsked, issued.files + 1, {})
    /\ UNCHANGED receipts
    /\ ReceiptsFrame

\* mutation storeReceipt({userId, fileId, ...}): no identity is asked for,
\* userId is any string and fileId any id of "_storage" (v.id checks the
\* format of the id, not that the file is there: the id of a file that is
\* already referenced or already deleted is accepted)
storeReceipt ==
    /\ issued.receipts < MaxReceipts
    /\ \E userId \in Users, fileId \in 1..issued.files :
         /\ receipts' = receipts \cup {NewReceipt(userId, fileId)}
         /\ reply' = Returned("storeReceipt", NotAsked,
                              [userId |-> userId, fileId |-> fileId],
                              {issued.receipts + 1})
    /\ issued' = [issued EXCEPT !.receipts = @ + 1]
    /\ UNCHANGED storage
    /\ ReceiptsFrame

\* what ctx.storage.delete(fileId) does when the file is not in storage: it
\* throws, or it finds nothing to delete and resolves
MissingFileOutcomes == {"throws", "resolves"}

\* mutation deleteReceipt({id}): the check of the caller is commented out
deleteReceipt ==
    /\ \E id \in ReceiptIds, missing \in MissingFileOutcomes :
         IF Got(id) = {}
         THEN /\ reply' = Threw("deleteReceipt", NotAsked, id,
                                "Receipt not found")
              /\ UNCHANGED <<receipts, storage>>
         ELSE IF (\E r \in Got(id) : r.fileId \notin storage)
                 /\ missing = "throws"
         THEN /\ reply' = Threw("deleteReceipt", NotAsked, id,
                                "storage.delete failed")
              /\ UNCHANGED <<receipts, storage>>
         ELSE /\ storage' = storage \ {r.fileId : r \in Got(id)}
              /\ receipts' = receipts \ Got(id)
              /\ reply' = Returned("deleteReceipt", NotAsked, id, {})
    /\ UNCHANGED issued
    /\ ReceiptsFrame

\* Mutant: updateReceiptStatus without the comparison of receipt.userId
\* with the subject.
updateReceiptStatusAnyUser ==
    /\ \E caller \in Identities, id \in ReceiptIds, status \in Statuses :
         LET arg == [id |-> id, status |-> status] IN
         IF Got(id) = {}
         THEN /\ reply' = Threw("updateReceiptStatus", caller, arg,
                                "Receipt not found")
              /\ UNCHANGED receipts
         ELSE IF caller = Anonymous
         THEN /\ reply' = Threw("updateReceiptStatus", caller, arg,
                                "Not Authenticated")
              /\ UNCHANGED receipts
         ELSE /\ receipts' = {IF r.id = id THEN [r EXCEPT !.status = status]
                              ELSE r : r \in receipts}
              /\ reply' = Returned("updateReceiptStatus", caller, arg, {})
    /\ UNCHANGED <<storage, issued>>
    /\ ReceiptsFrame

\* mutation updateReceiptStatus({id, status})
updateReceiptStatus ==
    /\ \E caller \in Identities, id \in ReceiptIds, status \in Statuses :
         LET arg == [id |-> id, status |-> status] IN
         IF Got(id) = {}
         THEN /\ reply' = Threw("updateReceiptStatus", caller, arg,
                                "Receipt not found")
              /\ UNCHANGED receipts
         ELSE IF caller = Anonymous
         THEN /\ reply' = Threw("updateReceiptStatus", caller, arg,
                                "Not Authenticated")
              /\ UNCHANGED receipts
         ELSE IF \E r \in Got(id) : r.userId # caller
         THEN /\ reply' = Threw("updateReceiptStatus", caller, arg,
                                "Not Authorized to update this receipt")
              /\ UNCHANGED receipts
         ELSE /\ receipts' = {IF r.id = id THEN [r EXCEPT !.status = status]
                              ELSE r : r \in receipts}
              /\ reply' = Returned("updateReceiptStatus", caller, arg, {})
    /\ UNCHANGED <<storage, issued>>
    /\ ReceiptsFrame

\* mutation updateReceiptWithProcessingResult({id, processingResult}): the
\* check of the caller is commented out
updateReceiptWithProcessingResult ==
    /\ \E id \in ReceiptIds, successful \in BOOLEAN,
          audit \in AuditDecisions :
         LET arg == [id |-> id, processing_successful |-> successful,
                     audit_decision |-> audit] IN
         IF Got(id) = {}
         THEN /\ reply' = Threw("updateReceiptWithProcessingResult",
                                NotAsked, arg, "Receipt not found")
              /\ UNCHANGED receipts
         ELSE /\ receipts' = PatchedWithResult(id, successful, audit)
              /\ reply' = Returned("updateReceiptWithProcessingResult",
                                   NotAsked, arg, {})
    /\ UNCHANGED <<storage, issued>>
    /\ ReceiptsFrame

\* mutation updateReceiptWithError({id, error_message}): the check of the
\* caller is commented out
updateReceiptWithError ==
    /\ \E id \in ReceiptIds :
         IF Got(id) = {}
         THEN /\ reply' = Threw("updateReceiptWithError", NotAsked, id,
                                "Receipt not found")
              /\ UNCHANGED receipts
         ELSE /\ receipts' = Patched(id, "error", FALSE)
              /\ reply' = Returned("updateReceiptWithError", NotAsked, id, {})
    /\ UNCHANGED <<storage, issued>>
    /\ ReceiptsFrame

ReceiptsInit ==
    /\ NoCompression
    /\ receipts = {}
    /\ storage = {}
    /\ issued = NoneIssued
    /\ reply = NoReply
    /\ sa = NoServerAction
    /\ hu = NoUpload

\* receipts are created, read and deleted
ReceiptsNext ==
    \/ UploadToUrl
    \/ storeReceipt
    \/ deleteReceipt
    \/ getReceipts
    \/ getReceiptById

ReceiptsSpec == ReceiptsInit /\ [][ReceiptsNext]_vars

\* receipts are created and their status is set by clients
StatusNext ==
    \/ UploadToUrl
    \/ storeReceipt
    \/ updateReceiptStatus

StatusSpec == ReceiptsInit /\ [][StatusNext]_vars

\* receipts are created and the outcome of their processing is recorded
ResultNext ==
    \/ UploadToUrl
    \/ storeReceipt
    \/ updateReceiptWithProcessingResult
    \/ updateReceiptWithError

ResultSpec == ReceiptsInit /\ [][ResultNext]_vars

(***************************************************************************)
(* src/components/schematic/SchematicEmbed.tsx: ReceiptDropzone.handleUpload *)
(* compressImage and uploadPDF are the environment here: each settles one  *)
(* way or the other.                                                       *)
(***************************************************************************)
\* the files a user can drop: a JPEG over 1 MB, a JPEG under it, a HEIC
\* image over 1 MB (valid, not compressible), a PDF, a text file (not valid)
DroppedFiles == {"largeJpeg", "smallJpeg", "largeHeic", "pdf", "text"}

\* isValidImageFile(file) || isPDF(file)
IsValidReceiptFile(f) == f # "text"

\* isCompressibleImage(file) && file.size > 1024 * 1024
NeedsCompression(f) == f = "largeJpeg"

DropSequences ==
    UNION {[1..n -> DroppedFiles] : n \in 1..MaxFiles}

\* the head of the for loop for validFiles[i]: compress it, upload it as it
\* is, or leave the loop when no file is left
LoopHead(h, i) ==
    IF i > Len(h.validFiles)
    THEN [h EXCEPT !.pc = "finished", !.i = i]
    ELSE IF NeedsCompression(h.validFiles[i])
    THEN [h EXCEPT !.pc = "compressing", !.i = i]
    ELSE [h EXCEPT !.pc = "uploading", !.i = i,
                   !.uploads = Append(h.uploads, <<i, "original">>)]

DropFrame ==
    UNCHANGED <<impl, callVars, running, parked, receipts, storage, issued,
                reply, sa>>

\* handleUpload(files) up to its first await
handleUpload ==
    /\ hu.pc = "absent"
    /\ \E user \in BOOLEAN, files \in DropSequences :
         LET h == [pc |-> "refused", files |-> files,
                   validFiles |-> SelectSeq(files, IsValidReceiptFile),
                   i |-> 0, uploads |-> <<>>, rejected |-> {},
                   uploadOk |-> TRUE, newUploadedFiles |-> 0]
         IN  hu' = IF ~user \/ h.validFiles = <<>> THEN h
                   ELSE LoopHead(h, 1)
    /\ DropFrame

\* Mutant: a rejection of compressImage reaches the outer catch.
CompressImageSettledAborts ==
    /\ hu.pc = "compressing"
    /\ \E resolved \in BOOLEAN :
         hu' = IF resolved
               THEN [hu EXCEPT !.pc = "uploading",
                               !.uploads = Append(hu.uploads,
                                                  <<hu.i, "compressed">>)]
               ELSE [hu EXCEPT !.pc = "failed",
                               !.rejected = hu.rejected \cup {hu.i}]
    /\ DropFrame

\* compressImage resolved with the compressed file or rejected; either way
\* uploadPDF is called with fileToUpload
CompressImageSettled ==
    /\ hu.pc = "compressing"
    /\ \E resolved \in BOOLEAN :
         hu' = IF resolved
               THEN [hu EXCEPT !.pc = "uploading",
                               !.uploads = Append(hu.uploads,
                                                  <<hu.i, "compressed">>)]
               ELSE [hu EXCEPT !.pc = "uploading",
                               !.rejected = hu.rejected \cup {hu.i},
                               !.uploads = Append(hu.uploads,
                                                  <<hu.i, "original">>)]
    /\ DropFrame

\* uploadPDF resolved with result.success or without it (or rejected)
UploadPDFSettled ==
    /\ hu.pc = "uploading"
    /\ \E success \in BOOLEAN :
         hu' = IF success
               THEN LoopHead([hu EXCEPT !.newUploadedFiles = @ + 1], hu.i + 1)
               ELSE [hu EXCEPT !.pc = "failed", !.uploadOk = FALSE]
    /\ DropFrame

DropInit ==
    /\ NoCompression
    /\ receipts = {}
    /\ storage = {}
    /\ issued = NoneIssued
    /\ reply = NoReply
    /\ sa = NoServerAction
    /\ hu = NoUpload

DropNext ==
    \/ handleUpload
    \/ CompressImageSettled
    \/ UploadPDFSettled

DropSpec == DropInit /\ [][DropNext]_vars

(***************************************************************************)
(* Properties.                                                             *)
(***************************************************************************)
Settled == pc \in {"resolved", "rejected"}

\* every percentage reported so far that the state still holds, in order
ProgressTail == prevProgress \o reported

\* C1: in both implementations, a call on a file with file.size <=
\* maxSizeBytes resolves with that very file and starts no image load, draws
\* on no canvas and calls toBlob not once.
C1_SmallInputReturnedUntouched ==
    (file.size <= opts.maxSizeBytes /\ pc # "idle")
        => /\ pc = "resolved"
           /\ result = file
           /\ ~loaded
           /\ ~drawn
           /\ encodes = 0
           /\ canvas = NoCanvas

C1_Witness ==
    /\ callNo = 1
    /\ pc = "resolved"
    /\ file.size = opts.maxSizeBytes
    /\ result = file

\* C2 (as claimed): every canvas handed to toBlob, after the first resize and
\* after every dimension-reduction round, has width <= maxWidth and
\* height <= maxHeight, whatever the two bounds are.
C2_EncodedCanvasWithinBounds ==
    pc = "encoding"
        => /\ canvas.width <= opts.maxWidth
           /\ canvas.height <= opts.maxHeight

\* w : h equals W : H after moving each of w and h by at most one pixel
AspectWithinOnePixel(w, h, W, H) ==
    /\ (w - 1) * H <= (h + 1) * W
    /\ (h - 1) * W <= (w + 1) * H

\* C3 (as claimed): the image a call on the input resolves with after
\* re-encoding has the width : height ratio of the original image up to one
\* pixel per axis, after any number of dimension-reduction rounds.
C3_AspectRatioPreserved ==
    (callNo = 1 /\ pc = "resolved" /\ result.origin = "blob")
        => AspectWithinOnePixel(result.width, result.height,
                                file.width, file.height)

\* C4 (as claimed): every call, once made, resolves or rejects, whatever the
\* encoder produces.
C4_EveryCallCompletes == (pc = "idle") ~> Settled

\* C5 (as claimed): a call whose encodings never get under maxSizeBytes still
\* resolves with a re-encoded image: once toBlob was called, the call comes
\* to resolve with an encoded file unless the browser fails it.
C5_BestEffortResult ==
    (callNo = 1 /\ pc = "encoding")
        ~> \/ pc = "resolved" /\ result.origin # "input"
           \/ pc = "rejected"

\* lo <= q <= hi for the qualities of one implementation
QualityWithin(q, lo, hi) ==
    IF impl = "lib"
    THEN /\ q.k > lo.k \/ (q.k = lo.k /\ q.e >= lo.e)
         /\ hi.k > q.k \/ (hi.k = q.k /\ hi.e >= q.e)
    ELSE lo <= q /\ q <= hi

\* C6: while no dimension-reduction round has happened, every quality handed
\* to toBlob lies in [minQuality, initialQuality]; in particular the one
\* whose encoding met the size target and was returned.
C6_QualityWithinRange ==
    (encodes > 0 /\ rounds = 0)
        => IF impl = "lib"
           THEN QualityWithin(encodedAt, minQuality, opts.quality)
           ELSE QualityWithin(encodedAt, opts.minQuality, opts.initialQuality)

C6_Witness ==
    /\ pc = "resolved"
    /\ result.origin = "blob"
    /\ result.size <= opts.maxSizeBytes
    /\ rounds = 0
    /\ encodes >= 3
    /\ encodedAt # (IF impl = "lib" THEN opts.quality ELSE opts.initialQuality)

\* C7 (as claimed): the percentages passed to onProgress within one call
\* never decrease, and the last one before the call resolves is 100.
C7_ProgressMonotoneEndsAt100 ==
    /\ Monotone(ProgressTail)
    /\ (pc = "resolved" /\ ProgressTail # <<>>)
           => ProgressTail[Len(ProgressTail)] = Pct(100)

\* C8: a call on a file over the ceiling that does not decode rejects with
\* an error; it never calls toBlob, never draws and never resolves.
C8_UndecodableInputRejects ==
    (file.size > opts.maxSizeBytes /\ ~file.decodable
        /\ pc \notin {"idle", "loading"})
        => /\ pc = "rejected"
           /\ result \in {[error |-> "Failed to load image"],
                          [error |-> "Could not get canvas context"]}
           /\ encodes = 0
           /\ ~drawn

C8_Witness ==
    /\ callNo = 1
    /\ file.size > opts.maxSizeBytes
    /\ ~file.decodable
    /\ loaded
    /\ pc = "rejected"
    /\ result = [error |-> "Failed to load image"]

\* C9 (as claimed): no call resolves with a File built from a failed encode
\* (canvas.toBlob handing null to its callback).
C9_NoFileFromFailedEncode ==
    pc = "resolved" => result.origin # "null"

\* C10: when the first call resolved with a file within the ceiling, the
\* call on that file with the same options resolves with the same file.
C10_RecompressIsNoOp ==
    (callNo = 2 /\ file.size <= opts.maxSizeBytes /\ pc # "idle")
        => pc = "resolved" /\ result = file

C10_Witness ==
    /\ callNo = 2
    /\ file.origin = "blob"
    /\ file.size = opts.maxSizeBytes
    /\ pc = "resolved"
    /\ result = file


(***************************************************************************)
(* What a call does when nothing else runs, computed from its own input.   *)
(***************************************************************************)
RECURSIVE ShrunkTimes(_, _)
\* canvas c after n dimension-reduction rounds
ShrunkTimes(c, n) ==
    IF n = 0 THEN c
    ELSE ShrunkTimes([width |-> Round80(c.width),
                      height |-> Round80(c.height)], n - 1)

RECURSIVE LoweredTimes(_, _)
\* "lib": quality q after n passes of quality -= qualityStep
LoweredTimes(q, n) ==
    IF n = 0 THEN q ELSE LoweredTimes(DblSub(q, qualityStep), n - 1)

RECURSIVE ScaledTimes(_, _, _)
\* "unnamed": quality q after n passes of Math.max(quality * 0.8, minQuality)
ScaledTimes(q, minQ, n) ==
    IF n = 0 THEN q ELSE ScaledTimes(NextQualityUnnamed(q, minQ), minQ, n - 1)

\* the canvas the call with closure fr encodes in its round fr.rounds
OwnCanvas(fr) ==
    IF impl = "lib"
    THEN ShrunkTimes(calculateDimensions(fr.file.width, fr.file.height,
                                         fr.opts.maxWidth, fr.opts.maxHeight),
                     fr.rounds)
    ELSE calculateOptimalDimensions(fr.file.width, fr.file.height,
                                    fr.opts.maxWidth, fr.opts.maxHeight)

\* the quality the call with closure fr encodes with in its attempt fr.attempt
OwnQuality(fr) ==
    IF impl = "lib"
    THEN LoweredTimes(IF fr.rounds = 0 THEN fr.opts.quality
                      ELSE RestartQuality, fr.attempt - 1)
    ELSE ScaledTimes(fr.opts.initialQuality, fr.opts.minQuality, fr.attempt)

\* closure fr is where the call would be had it run alone
AsWhenAlone(fr) ==
    /\ fr.pc = "encoding" =>
         /\ fr.quality = OwnQuality(fr)
         /\ fr.encodedAt = fr.quality
         /\ fr.rounds < MaxRounds => fr.canvas = OwnCanvas(fr)
    /\ fr.pc = "resolved" =>
         \/ fr.result = fr.file
         \/ /\ fr.result.origin = "blob"
            /\ fr.result.size <= fr.opts.maxSizeBytes \/ impl = "unnamed"
            /\ fr.rounds < MaxRounds =>
                 /\ fr.result.width = OwnCanvas(fr).width
                 /\ fr.result.height = OwnCanvas(fr).height
         \/ impl = "unnamed" /\ fr.result = NullFile
    /\ fr.pc \in {"idle", "loading"} => fr.encodes = 0 /\ fr.rounds = 0

\* C11: while two compressImage calls are in flight and their handlers
\* interleave, each call encodes the canvas and the quality that its own
\* file, options, round and attempt determine, and resolves with its own
\* file or an encoding of its own canvas: nothing of one call shows in the
\* other.
C11_ConcurrentCallsIndependent == AsWhenAlone(Frame) /\ AsWhenAlone(parked)

\* both calls are past their first encode and one has resolved with an
\* encoding while the other, resumed after it, is still encoding
C11_Witness ==
    /\ parked.pc = "resolved"
    /\ parked.result.origin = "blob"
    /\ pc = "encoding"
    /\ encodes >= 2
    /\ running = 1

\* a < b for the doubles of "lib"
DblLess(a, b) == a.k < b.k \/ (a.k = b.k /\ a.e < b.e)

\* the step reports 85, 'Reducing dimensions...': the canvas is shrunk
ShrinksCanvas ==
    /\ impl = "lib"
    /\ \E i \in 1..Len(reported') : reported'[i] = Pct(85)

\* the step answers one encode of compressToSize with the next encode of
\* the same round
NextAttemptOfRound ==
    /\ impl = "lib"
    /\ pc = "encoding"
    /\ pc' = "encoding"
    /\ ~ShrinksCanvas

\* C14: in compressToSize ("lib") the qualities attempted on one canvas are
\* strictly decreasing, and the canvas is shrunk only in answer to an
\* encode that exceeded maxSizeBytes and was made at a quality not below
\* minQuality whose next step quality - qualityStep is below minQuality.
C14_ShrinkOnlyAfterQualitySearch ==
    [][/\ ShrinksCanvas =>
            /\ pc = "encoding"
            /\ encodedAt = quality
            /\ ~DblLess(quality, minQuality)
            /\ DblLess(DblSub(quality, qualityStep), minQuality)
            /\ lastBlob' > opts.maxSizeBytes
       /\ NextAttemptOfRound =>
            /\ DblLess(encodedAt', encodedAt)
            /\ canvas' = canvas
            /\ rounds' = rounds
            /\ lastBlob' > opts.maxSizeBytes]_vars

\* a reduction round has begun after more than one attempt on the first
\* canvas, and its own quality search is past its first attempt
C14_Witness ==
    /\ impl = "lib"
    /\ pc = "encoding"
    /\ rounds = 1
    /\ attempt >= 2
    /\ DblLess(quality, RestartQuality)
    /\ lastBlob > opts.maxSizeBytes

\* |a - b|
Distance(a, b) == IF a < b THEN b - a ELSE a - b

\* w x h is W x H if that fits mw x mh; otherwise the axis that exceeds its
\* bound by the larger ratio is at its bound and the other axis is the
\* nearest integer to its length times the same factor, within its bound
ScaledByCommonFactor(w, h, W, H, mw, mh) ==
    IF W <= mw /\ H <= mh
    THEN w = W /\ h = H
    ELSE IF W * mh >= H * mw
    THEN w = mw /\ h <= mh /\ 2 * Distance(h * W, mw * H) <= W
    ELSE h = mh /\ w <= mw /\ 2 * Distance(w * H, mh * W) <= H

\* C15: for every image size and every maxWidth and maxHeight, the canvas
\* size a dimension calculator returns is the original size when that fits
\* both bounds, and otherwise both axes scaled by one factor that puts the
\* axis exceeding its bound by the larger ratio exactly at its bound and
\* keeps the other axis within its bound.
C15_CalculatorsScaleIntoBounds ==
    pc = "sized" =>
        ScaledByCommonFactor(canvas.width, canvas.height, file.width,
                             file.height, opts.maxWidth, opts.maxHeight)

\* p is a percentage from 0 to 100
IsPercentage(p) == p[2] > 0 /\ p[1] >= 0 /\ p[1] <= 100 * p[2]

\* C16: every percentage handed to the progress callback is a number from
\* 0 to 100, whatever the starting quality (0.1 included) and whichever
\* attempt reports it.
C16_ProgressWithinZeroToHundred ==
    \A i \in 1..Len(reported) : IsPercentage(reported[i])

\* C12: every receipt that getReceipts returned belongs to the authenticated
\* user who made the call.
C12_GetReceiptsOnlyOwn ==
    reply.op = "getReceipts" => \A r \in reply.docs : r.userId = reply.caller

\* C13: getReceiptById hands an existing receipt to a caller only if the
\* caller is authenticated and is the receipt's user; to an unauthenticated
\* caller or another user it throws and hands nothing; for an id without a
\* receipt it returns null.
C13_GetReceiptByIdAccess ==
    [][reply' # reply /\ reply'.op = "getReceiptById" =>
        /\ \A r \in reply'.docs :
             r.id = reply'.arg /\ r \in receipts /\ r.userId = reply'.caller
        /\ Got(reply'.arg) = {} => reply'.error = "" /\ reply'.docs = {}
        /\ \A r \in Got(reply'.arg) :
             IF r.userId = reply'.caller
             THEN reply'.error = "" /\ reply'.docs = {r}
             ELSE reply'.error # "" /\ reply'.docs = {}]_vars

\* a user who has a receipt was refused the receipt of the other user
C13_Witness ==
    /\ reply.op = "getReceiptById"
    /\ reply.error # ""
    /\ reply.caller \in Users
    /\ \E r \in receipts : r.id = reply.arg /\ r.userId # reply.caller
    /\ \E r \in receipts : r.userId = reply.caller

\* uploadFile has been called
Called == sa.pc # "absent"

\* uploadFile has issued the request `name`
Has(name) == \E i \in 1..Len(sa.trace) : sa.trace[i] = name

\* request a was issued before request b
Before(a, b) ==
    \E i, j \in 1..Len(sa.trace) :
        i < j /\ sa.trace[i] = a /\ sa.trace[j] = b

\* the receipt uploadFile created
OwnReceipt == Got(sa.receiptId)

\* C18: a call of uploadFile without a signed-in user, without a file or
\* with a file that is neither an image nor a PDF issues no request (no
\* upload URL, storage upload, mutation, processing request or scan
\* event), leaves the table and the storage as they were and returns
\* success: false with an error message.
C18_RefusedInputHasNoEffect ==
    Called /\ (sa.user = Anonymous \/ sa.file \notin {"image", "pdf"}) =>
        /\ sa.trace = <<>>
        /\ receipts = sa.before.receipts
        /\ storage = sa.before.storage
        /\ sa.pc = "returned" =>
             /\ ~sa.ret.success
             /\ sa.ret.error \in {"Not Authorized", "No file provided",
                                  "Only image and PDF files"}

\* a signed-in user was refused a file of another type while a receipt of
\* an earlier call is in the table
C18_Witness ==
    /\ Called
    /\ sa.pc = "returned"
    /\ sa.user \in Users
    /\ sa.file = "other"
    /\ receipts # {}

\* C19: in uploadFile storeReceipt is called only after the storage upload
\* was issued and answered OK, the processing request and every update of
\* the receipt are issued only after storeReceipt and while the receipt
\* exists, and a call whose storage upload was not answered OK adds no
\* receipt.
C19_StepsInOrder ==
    Called =>
        /\ Has("storeReceipt") =>
             /\ Before("storagePost", "storeReceipt")
             /\ sa.storageId \in storage
        /\ \A e \in {"processReceipt", "updateReceiptWithProcessingResult",
                     "updateReceiptWithError"} :
             Has(e) =>
                 /\ Before("storeReceipt", e)
                 /\ \E r \in OwnReceipt :
                      r.userId = sa.user /\ r.fileId = sa.storageId
        /\ sa.storageId = 0 => receipts = sa.before.receipts

\* a call went all the way: stored, processed, updated, returned
C19_Witness ==
    /\ Called
    /\ sa.pc = "returned"
    /\ sa.ret.success
    /\ Has("updateReceiptWithProcessingResult")
    /\ \E r \in OwnReceipt : r.status = "processed"

\* the processing service answered non-OK or the request threw
ProcessingFailed == Called /\ sa.processing \in {"notOk", "threw"}

\* the receipt of the call is marked as failed
MarkedAsError ==
    \A r \in OwnReceipt : r.status = "error" /\ ~r.processing_successful

\* C20 as stated: whenever the processing request failed, uploadFile has
\* called updateReceiptWithError, the receipt is marked 'error', and the
\* call returns success: true with processingSuccessful false and the id.
C20_ProcessingFailureStillSucceeds ==
    ProcessingFailed /\ sa.pc = "returned" =>
        /\ Has("updateReceiptWithError")
        /\ MarkedAsError
        /\ sa.ret = Success(sa.receiptId, FALSE)

\* C20 amended: whenever the processing request failed, uploadFile has
\* called updateReceiptWithError; if that call (or its repetition in the
\* catch block) completed, the receipt is marked 'error' and the call
\* returns success: true with processingSuccessful false and the id; if
\* the call in the catch block threw, the call returns success: false and
\* the receipt is still 'pending'.
C20_ProcessingFailureRecorded ==
    ProcessingFailed /\ sa.pc = "returned" =>
        /\ Has("updateReceiptWithError")
        /\ OwnReceipt # {}
        /\ IF sa.errorRecorded
           THEN MarkedAsError /\ sa.ret = Success(sa.receiptId, FALSE)
           ELSE /\ ~sa.ret.success
                /\ \A r \in OwnReceipt : r.status = "pending"

\* the request threw, the error was recorded and the call returned success
C20_Witness ==
    /\ ProcessingFailed
    /\ sa.processing = "threw"
    /\ sa.pc = "returned"
    /\ sa.errorRecorded
    /\ sa.ret.success

\* handleUpload is past its checks of the user and of the file types
InLoop == hu.pc \in {"compressing", "uploading", "failed", "finished"}

\* C17: when compressImage rejects for a file, handleUpload calls uploadPDF
\* with that file in its original form; the valid files are uploaded one
\* after the other without a gap, all of them when the loop finishes, and
\* handleUpload gives up only when an upload did not succeed.
C17_CompressionFailureFallsBack ==
    InLoop =>
        /\ \A i \in hu.rejected :
             /\ i <= Len(hu.uploads)
             /\ hu.uploads[i] = <<i, "original">>
        /\ \A j \in 1..Len(hu.uploads) : hu.uploads[j][1] = j
        /\ hu.pc = "finished" => Len(hu.uploads) = Len(hu.validFiles)
        /\ hu.pc = "failed" => ~hu.uploadOk

\* the compression of the first file was rejected and every valid file,
\* more than one, has been uploaded
C17_Witness ==
    /\ hu.pc = "finished"
    /\ 1 \in hu.rejected
    /\ Len(hu.validFiles) >= 2
    /\ hu.newUploadedFiles = Len(hu.validFiles)

\* C25: every File that compressImage of "lib" resolves with, the input
\* itself or an encoding made by compressToSize after any number of quality
\* attempts and reduction rounds, has size <= maxSizeBytes.
C25_LibResultWithinCeiling ==
    impl = "lib" /\ pc = "resolved" => result.size <= opts.maxSizeBytes

\* compressToSize resolved with an encoding after a reduction round and
\* more than one attempt in it
C25_Witness ==
    /\ impl = "lib"
    /\ pc = "resolved"
    /\ result.origin = "blob"
    /\ rounds >= 1
    /\ attempt >= 2
    /\ lastBlob = result.size

\* how many times uploadFile has issued the request `name`
Count(name) == Cardinality({i \in 1..Len(sa.trace) : sa.trace[i] = name})

\* C21: uploadFile tracks the 'scan' event at most once per call, and only
\* after the processing service answered OK and
\* updateReceiptWithProcessingResult, issued before it, completed; a call
\* whose processing request failed or whose receipt was not updated with a
\* result tracks nothing.
C21_ScanTrackedOnlyAfterResult ==
    Called =>
        /\ Count("track") <= 1
        /\ Has("track") =>
             /\ sa.processing = "ok"
             /\ sa.processingResult # "null"
             /\ sa.resultRecorded
             /\ Before("processReceipt", "updateReceiptWithProcessingResult")
             /\ Before("updateReceiptWithProcessingResult", "track")
        /\ sa.processing \in {"notOk", "threw"} \/ ~sa.resultRecorded =>
             ~Has("track")

\* a call tracked its scan and returned, after an earlier receipt's
\* processing had failed
C21_Witness ==
    /\ Called
    /\ sa.pc = "returned"
    /\ Has("track")
    /\ sa.ret.success
    /\ \E r \in receipts : r.id # sa.receiptId /\ r.status = "error"

\* the table after the step differs from the table before it in the
\* document `id` at most
OnlyChanged(id) ==
    /\ {r \in receipts : r.id # id} = {r \in receipts' : r.id # id}
    /\ \A r \in Got(id) : \E q \in receipts' : q.id = id

\* C22: updateReceiptWithProcessingResult sets the status of the receipt to
\* 'processed' exactly when processingResult.processing_successful is true
\* and to 'error' otherwise, stores processing_successful and every audit
\* flag as given and leaves the other receipts as they were; for an id
\* without a receipt it throws 'Receipt not found' and the table is as it
\* was.
C22_ProcessingResultStored ==
    [][reply'.op = "updateReceiptWithProcessingResult" =>
        LET given == reply'.arg IN
        IF Got(given.id) = {}
        THEN reply'.error = "Receipt not found" /\ receipts' = receipts
        ELSE /\ reply'.error = ""
             /\ OnlyChanged(given.id)
             /\ \A q \in receipts' :
                  q.id = given.id =>
                    /\ q.status = "processed" <=> given.processing_successful
                    /\ q.status = "error" <=> ~given.processing_successful
                    /\ q.processing_successful = given.processing_successful
                    /\ q.audit = given.audit_decision
                    /\ \E r \in Got(given.id) :
                         q.userId = r.userId /\ q.fileId = r.fileId]_vars

\* a receipt was given an unsuccessful result with audit flags and carries
\* them with status 'error', while another receipt is still pending
C22_Witness ==
    /\ reply.op = "updateReceiptWithProcessingResult"
    /\ reply.error = ""
    /\ ~reply.arg.processing_successful
    /\ reply.arg.audit_decision # NoFlags
    /\ \E r \in receipts :
         /\ r.id = reply.arg.id
         /\ r.status = "error"
         /\ r.audit = reply.arg.audit_decision
    /\ \E r \in receipts : r.id # reply.arg.id /\ r.status = "pending"

\* C23: updateReceiptStatus changes the status of a receipt only for an
\* authenticated caller whose identity subject is the receipt's userId, and
\* then sets it to the given status; for a missing receipt, an
\* unauthenticated caller or another user it throws and every receipt is as
\* it was.
C23_StatusOnlyByOwner ==
    [][reply'.op = "updateReceiptStatus" =>
        LET given == reply'.arg
            caller == reply'.caller
        IN
        /\ receipts' # receipts =>
             /\ caller \in Users
             /\ \A r \in Got(given.id) : r.userId = caller
        /\ IF \/ Got(given.id) = {}
              \/ caller = Anonymous
              \/ \E r \in Got(given.id) : r.userId # caller
           THEN reply'.error # "" /\ receipts' = receipts
           ELSE /\ reply'.error = ""
                /\ OnlyChanged(given.id)
                /\ \A r \in Got(given.id) :
                     [r EXCEPT !.status = given.status] \in receipts']_vars

\* a user who changed the status of their own receipt was refused the
\* receipt of the other user, which is still pending
C23_Witness ==
    /\ reply.op = "updateReceiptStatus"
    /\ reply.error = "Not Authorized to update this receipt"
    /\ reply.caller \in Users
    /\ \E r \in receipts :
         /\ r.id = reply.arg.id
         /\ r.userId # reply.caller
         /\ r.status = "pending"
    /\ \E r \in receipts : r.userId = reply.caller /\ r.status = "error"
\* C24: after any sequence of storeReceipt and deleteReceipt calls, every
\* receipt record references a file that still exists in storage.
C24_EveryReceiptReferencesStoredFile ==
    \A r \in receipts : r.fileId \in storage
====
